---- MODULE Spec2Model ----
(***************************************************************************)
(* A model of multitrack_player.py (Multitrack Player v17): the per-track  *)
(* sounddevice player (TrackPlayerSD), its audio callback, the pactl sink  *)
(* routing threads, the transport handlers of MainWindow and the project / *)
(* global JSON settings.                                                   *)
(*                                                                         *)
(* Time is counted in ticks of 1/(100 * samplerate) seconds, so that one   *)
(* source frame is TicksPerFrame ticks, 0.01 s is samplerate ticks and a   *)
(* playback rate of r/20 advances the position by 5*r ticks per output     *)
(* frame.  Playback rates are counted in twentieths (PLAYBACK_RATE_STEP is *)
(* 0.05): 10 is 0.5, 20 is 1.0, 30 is 1.5.  Volumes are percentages.       *)
(* Audio frames are mono; a sample value is a pair <<num, den>> standing   *)
(* for the exact rational num/den (float32 rounding is not modelled).      *)
(***************************************************************************)
EXTENDS Integers, Sequences, FiniteSets, TLC

\* ---------------------------------------------------------------- bounds
NumTracks == 2          \* audio files in the project folder
FileLen == 14           \* frames in the first audio file
MaxFrames == 3          \* largest block (frames per callback) the host asks for
MaxEdits == 2           \* settings the user changes by hand in one session
samplerate == 10        \* frames per second of the audio files

\* ------------------------------------------------------ program constants
RateDen == 4 * 5                     \* rates are counted in steps of 0.05
PLAYBACK_RATE_MIN == RateDen \div 2  \* 0.5
PLAYBACK_RATE_MAX == RateDen + RateDen \div 2   \* 1.5
PLAYBACK_RATE_STEP == RateDen \div RateDen      \* 0.05
DEFAULT_BPM == 80

TicksPerFrame == 5 * RateDen
TicksPerSecond == TicksPerFrame * samplerate
LoopEndSlack == 2 * samplerate       \* 0.02 s, ui_tick's loop-end window

Tracks == 1..NumTracks
Rates == PLAYBACK_RATE_MIN..PLAYBACK_RATE_MAX
None == "None"
Unset == 0 - 1          \* a numeric attribute that was never assigned

Min(a, b) == IF a <= b THEN a ELSE b
Max(a, b) == IF a >= b THEN a ELSE b
CeilDiv(a, b) == (a + b - 1) \div b

\* The audio file of track t: its length in frames, and its i-th frame
\* (0-based).  Every sample is non-zero and differs from its neighbours, so
\* that silence, a skipped frame and a repeated frame all show.
FileFrames(t) == FileLen + 2 * (t - 1)
Sample(t, i) == i + 1
get_duration(t) == FileFrames(t) * TicksPerFrame

VARIABLES
  sd_available,    \* sounddevice imported
  sf_available,    \* soundfile imported
  unreadable,      \* the audio files of the folder that no decoder opens
  read_only,       \* the project folder refuses the creation of files
  boxes,           \* the message boxes of the latest Save Settings, in order
  players,         \* track -> TrackPlayerSD fields
  cb,              \* track -> the audio thread's place in _callback
  frames,          \* track -> block size the host passes to _callback
  outdata,         \* track -> the block last written to the device
  written,         \* track -> frames delivered since the last play/seek
  written_from,    \* track -> source frame at which that stretch began
  sink_of,         \* track -> the sink its sink input plays on, or None
  mover,           \* track -> the _try_move_sink_input_after_start thread
  track_rows,      \* MainWindow.track_rows: the files of the rows, in order
  track_players,   \* MainWindow.track_players: the files of the players
  rows,            \* file -> its TrackRow widgets: vol, sink, mute, solo
  loop_toggle,     \* the "Loop On" box
  tick_enabled_cb, \* the "Tick" box
  bpm_spin,        \* the BPM spin box
  project_playback_rate,  \* MainWindow.project_playback_rate, or Unset
  timeline,        \* Timeline: duration, position, loop_start, loop_end
  tick_calls,      \* calls of TickPlayer.play_tick so far
  app,             \* "init", "running", "failed" (uncaught exception), "closed"
  global_file,     \* ~/.config/multitrack_player/config.json
  global_cfg,      \* MainWindow.global_cfg
  project_file,    \* <folder>/multitrack_config.json
  settings,        \* MainWindow.settings
  current_folder,  \* MainWindow.current_folder, or None
  device_names,    \* MainWindow.device_names
  loop_list,       \* MainWindow.loop_list: name -> <<start, end>>
  loop_select,     \* the loop drop-down: the selected name, or None
  current_loop_name,  \* MainWindow.current_loop_name, or None
  edits            \* settings the user has changed by hand so far

playerVars == <<players>>
cbVars == <<cb, frames, outdata, written, written_from>>
envVars == <<sd_available, sf_available, unreadable, read_only, boxes>>
routeVars == <<sink_of, mover>>
rowVars == <<track_rows, track_players, rows>>
transportVars == <<loop_toggle, tick_enabled_cb, bpm_spin,
                   project_playback_rate, timeline, tick_calls>>
cfgVars == <<app, global_file, global_cfg, project_file, settings,
             current_folder, device_names>>
loopVars == <<loop_list, loop_select, current_loop_name>>
sessionVars == <<cfgVars, loopVars, edits>>
uiVars == <<rowVars, transportVars, sessionVars>>
nonAudioVars == <<routeVars, uiVars>>
vars == <<envVars, playerVars, cbVars, routeVars, uiVars>>

\* ------------------------------------------------------- sound server
\* `pactl list short sinks`: the sinks of the sound server, in its order.
\* No sink name is part of another.  A new stream of this process starts
\* on the server's default sink.
pactl_sinks == <<"sinkA", "sinkB">>
DefaultSink == pactl_sinks[1]
SeqToSet(q) == {q[i] : i \in 1..Len(q)}

\* build_output_device_list(): "default", then the sinks not yet listed (no
\* sounddevice output device has a name of its own).
build_output_device_list == <<"default">> \o pactl_sinks
OurPid == "pid"

IdleMover == [pc |-> "off", sink_inputs |-> <<>>, target_sink |-> None]
RouteDefault ==
  /\ sink_of = [t \in Tracks |-> None]
  /\ mover = [t \in Tracks |-> IdleMover]

\* ------------------------------------------------------------ Timeline
NewTimeline(duration) ==
  [duration |-> Max(TicksPerSecond, duration), position |-> 0,
   loop_start |-> 0, loop_end |-> Max(TicksPerSecond, duration)]

set_duration(tl, d) ==
  LET dur == Max(TicksPerSecond, d)
  IN [tl EXCEPT !.duration = dur,
                !.loop_end = IF @ > dur THEN dur ELSE @]

set_position(tl, pos) == [tl EXCEPT !.position = Max(0, Min(pos, tl.duration))]

set_loop(tl, start, end) ==
  LET ls == Max(0, Min(start, tl.duration))
  IN [tl EXCEPT !.loop_start = ls, !.loop_end = Max(ls, Min(end, tl.duration))]

\* The widgets of a fresh TrackRow (_build_ui).
NewRow == [vol |-> 100, sink |-> "default", mute |-> FALSE, solo |-> FALSE]

\* ------------------------------------------------- Python values and JSON
\* A dict is a function from its keys, which are strings.
EmptyDict == <<>>
Get(d, k, default) == IF k \in DOMAIN d THEN d[k] ELSE default
DictSet(d, k, v) == [x \in DOMAIN d \cup {k} |-> IF x = k THEN v ELSE d[x]]
DictDel(d, k) == [x \in DOMAIN d \ {k} |-> d[x]]
Clamp(v, lo, hi) == Max(lo, Min(v, hi))

\* A value whose type the program does not know carries it along: "dict",
\* "list" or "NoneType".
PyDict(d) == [type |-> "dict", val |-> d]
IsDict(v) == v.type = "dict"

\* A file is "missing", "garbage" (not JSON) or a JSON text whose top value
\* is an "object", an "array" or "null".
MissingFile == [type |-> "missing", val |-> EmptyDict]
GarbageFile == [type |-> "garbage", val |-> EmptyDict]
JsonObject(d) == [type |-> "object", val |-> d]
JsonArray == [type |-> "array", val |-> EmptyDict]
JsonNull == [type |-> "null", val |-> EmptyDict]

\* json.load(f) of a JSON text, and json.dump(v, f).
json_load(file) ==
  [type |-> CASE file.type = "object" -> "dict"
              [] file.type = "array" -> "list"
              [] file.type = "null" -> "NoneType",
   val |-> file.val]

json_dump(v) ==
  [type |-> CASE v.type = "dict" -> "object"
              [] v.type = "list" -> "array"
              [] v.type = "NoneType" -> "null",
   val |-> v.val]

\* The read of a settings file: json.load, with {} for a file that is
\* missing or does not parse.
load_global_config(file) ==
  IF file.type \in {"missing", "garbage"} THEN PyDict(EmptyDict)
  ELSE json_load(file)

save_global_config(cfg) == json_dump(cfg)

HomeFolder == "~"
ProjectFolder == "~/song"

\* "ensure defaults" of MainWindow.__init__ on a dict.
EnsureDefaults(d) ==
  LET d1 == IF "default_project_folder" \in DOMAIN d THEN d
            ELSE DictSet(d, "default_project_folder", HomeFolder)
  IN IF "tick_file" \in DOMAIN d1 THEN d1 ELSE DictSet(d1, "tick_file", "")

\* MainWindow() with no global config file, before any folder is opened.
SessionDefault ==
  /\ app = "running"
  /\ global_file = MissingFile
  /\ global_cfg = PyDict(EnsureDefaults(EmptyDict))
  /\ project_file = MissingFile
  /\ settings = PyDict(EmptyDict)
  /\ current_folder = None
  /\ device_names = build_output_device_list
  /\ loop_list = EmptyDict
  /\ loop_select = None
  /\ current_loop_name = None
  /\ edits = 0

\* The widgets and lists of MainWindow.__init__ and _build_ui.
WindowDefault ==
  /\ track_rows = <<>>
  /\ track_players = <<>>
  /\ rows = [t \in Tracks |-> NewRow]
  /\ loop_toggle = FALSE
  /\ tick_enabled_cb = FALSE
  /\ bpm_spin = DEFAULT_BPM
  /\ project_playback_rate = Unset
  /\ timeline = NewTimeline(10 * TicksPerSecond)
  /\ tick_calls = 0

UiDefault == SessionDefault /\ WindowDefault

NonAudioDefault == RouteDefault /\ UiDefault

\* ------------------------------------------------------- TrackPlayerSD
\* stream: "none" (self.stream is None), "inactive" (created or finished)
\* or "active" (started: the host calls _callback).
NewPlayer(dev) ==
  [device_name |-> dev, sf_open |-> TRUE, sf_pos |-> 0, stream |-> "none",
   stop_flag |-> FALSE, playing |-> FALSE, position |-> 0,
   playback_rate |-> RateDen, volume |-> 100]

\* self.sf.seek(int(seconds * samplerate)) inside try/except: a closed file
\* or a target past the end raises, and the file position stays.
SfSeek(t, p, seconds) ==
  LET target == seconds \div TicksPerFrame
  IN IF p.sf_open /\ target >= 0 /\ target <= FileFrames(t)
     THEN [p EXCEPT !.sf_pos = target]
     ELSE p

P_set_playback_rate(p, rate) == [p EXCEPT !.playback_rate = rate]

P_set_volume_db(p, vol_pct) == [p EXCEPT !.volume = Max(0, vol_pct)]

P_seek(t, p, seconds) == [SfSeek(t, p, seconds) EXCEPT !.position = seconds]

P_stop(p) ==
  [p EXCEPT !.stop_flag = TRUE, !.playing = FALSE, !.sf_open = FALSE,
            !.stream = "none"]

\* _open_file on an existing path: a fresh SoundFile at frame 0.
P_open_file(p) == [p EXCEPT !.sf_open = TRUE, !.sf_pos = 0]

\* _create_stream: open is "ok" (the selected device), "fallback" (the
\* selected device failed, the default one opened) or "fail" (both failed).
P_create_stream(p, open) ==
  IF open = "fail" THEN [p EXCEPT !.stream = "none"]
  ELSE [p EXCEPT !.stream = "inactive"]

\* play() without `self.playing = False` on its two failure paths.
P_play_StaysPlaying(t, p, start_pos, open, start) ==
  LET p1 == [SfSeek(t, [p EXCEPT !.stop_flag = FALSE, !.playing = TRUE],
                    start_pos)
               EXCEPT !.position = start_pos]
      p2 == IF p1.stream = "none" THEN P_create_stream(p1, open) ELSE p1
  IN IF p2.stream = "inactive" /\ start THEN [p2 EXCEPT !.stream = "active"]
     ELSE p2

\* play(start_pos) with both libraries present.  `open` is the outcome of
\* _create_stream when no stream exists, `start` that of stream.start().
P_play(t, p, start_pos, open, start) ==
  LET p1 == [SfSeek(t, [p EXCEPT !.stop_flag = FALSE, !.playing = TRUE],
                    start_pos)
               EXCEPT !.position = start_pos]
      p2 == IF p1.stream = "none" THEN P_create_stream(p1, open) ELSE p1
  IN IF p2.stream = "none" THEN [p2 EXCEPT !.playing = FALSE]
     ELSE IF p2.stream = "active" THEN p2
     ELSE IF start THEN [p2 EXCEPT !.stream = "active"]
     ELSE [p2 EXCEPT !.playing = FALSE]

\* set_device_by_name that never restarts playback.
P_set_device_by_name_NoRestart(t, p, dev, open, start) ==
  LET pos == p.position
      p1 == P_open_file(P_stop([p EXCEPT !.device_name = dev]))
  IN P_create_stream([SfSeek(t, p1, pos) EXCEPT !.position = pos], open)

\* set_device_by_name(device_name) with sounddevice present.
P_set_device_by_name(t, p, dev, open, start) ==
  LET was_playing == p.playing
      pos == p.position
      p1 == P_open_file(P_stop([p EXCEPT !.device_name = dev]))
      p2 == [SfSeek(t, p1, pos) EXCEPT !.position = pos]
      p3 == P_create_stream(p2, open)
  IN IF p3.stream # "none" /\ was_playing
     THEN P_play(t, p3, pos, open, start)
     ELSE p3

\* ------------------------------------------------------------ _callback
Silent(block) == \A k \in 1..Len(block) : block[k][1] = 0
Zeros(n) == [k \in 1..n |-> <<0, 1>>]

\* src_frames_needed = int(np.ceil(frames / max(1e-6, rate))) + 4
SrcFramesNeeded(n, rate) == CeilDiv(n * RateDen, rate) + 4

\* self.sf.read(frames=n): at most n frames, fewer at the end of the file.
SfRead(t, p, n) ==
  LET k == Min(n, FileFrames(t) - p.sf_pos)
  IN [i \in 1..k |-> Sample(t, p.sf_pos + i - 1)]

\* rate == 1.0: the first `n` source frames, zero-padded when short.
CopyBlock(src, n) ==
  [k \in 1..n |-> IF k <= Len(src) THEN <<src[k], 1>> ELSE <<0, 1>>]

\* InterpBlock without the 0.0 appended to fp: np.interp then holds the
\* last sample right of the source.
InterpBlock_HoldLast(src, n, rate) ==
  [k \in 1..n |->
     LET q == (k - 1) * RateDen
         lo == q \div rate
         rem == q % rate
         last == src[Len(src)]
         ylo == IF lo < Len(src) THEN src[lo + 1] ELSE last
         yhi == IF lo + 1 < Len(src) THEN src[lo + 2] ELSE last
     IN <<ylo * (rate - rem) + yhi * rem, rate>>]

\* rate != 1.0: np.interp(np.arange(n) / rate, xp, fp) with xp = 0..src_len
\* and fp = src followed by 0.0; right of xp[-1] np.interp returns fp[-1].
InterpBlock(src, n, rate) ==
  [k \in 1..n |->
     LET q == (k - 1) * RateDen
         lo == q \div rate
         rem == q % rate
         ylo == IF lo < Len(src) THEN src[lo + 1] ELSE 0
         yhi == IF lo + 1 < Len(src) THEN src[lo + 2] ELSE 0
     IN <<ylo * (rate - rem) + yhi * rem, rate>>]

Resample(src, n, rate) ==
  IF rate = RateDen THEN CopyBlock(src, n) ELSE InterpBlock(src, n, rate)

\* out *= vol
ApplyVolume(out, vol) == [k \in 1..Len(out) |-> <<out[k][1] * vol, out[k][2] * 100>>]

\* frames / float(self.sf.samplerate) * rate, in ticks
CallbackAdvance(n, rate) == n * 5 * rate

IdleCb == [pc |-> "idle", rate |-> 0, pos |-> 0, src_len |-> 0, out |-> <<>>, fresh |-> TRUE]

\* raise sd.CallbackStop() on a stream opened without finished_callback.
CallbackStop_NoFinishedCallback(t) ==
  /\ outdata' = [outdata EXCEPT ![t] = Zeros(frames[t])]
  /\ players' = [players EXCEPT ![t].stream = "inactive"]
  /\ UNCHANGED <<cb, frames, written, written_from>>

\* raise sd.CallbackStop(): the block is silence, the stream goes inactive
\* and finished_callback (_stream_finished) clears playing.
CallbackStop(t) ==
  /\ outdata' = [outdata EXCEPT ![t] = Zeros(frames[t])]
  /\ players' = [players EXCEPT ![t].stream = "inactive", ![t].playing = FALSE]
  /\ UNCHANGED <<cb, frames, written, written_from>>

\* _callback up to the load of self.position in `self.position += ...`.
CallbackBegin(t) ==
  /\ players[t].stream = "active"
  /\ cb[t].pc = "idle"
  /\ LET p == players[t]
         src == SfRead(t, p, SrcFramesNeeded(frames[t], p.playback_rate))
     IN IF p.stop_flag \/ ~p.sf_open \/ Len(src) = 0
        THEN CallbackStop(t)
        ELSE /\ cb' = [cb EXCEPT ![t] =
                         [pc |-> "store", rate |-> p.playback_rate,
                          pos |-> p.position, src_len |-> Len(src),
                          out |-> ApplyVolume(
                                    Resample(src, frames[t], p.playback_rate),
                                    p.volume),
                          fresh |-> TRUE]]
             /\ players' = [players EXCEPT ![t].sf_pos = @ + Len(src)]
             /\ UNCHANGED <<frames, outdata, written, written_from>>
  /\ UNCHANGED <<envVars, nonAudioVars>>

\* The store of self.position, then outdata[:] = out.
CallbackEnd(t) ==
  /\ cb[t].pc = "store"
  /\ players' = [players EXCEPT
                   ![t].position = cb[t].pos + CallbackAdvance(frames[t], cb[t].rate)]
  /\ outdata' = [outdata EXCEPT ![t] = cb[t].out]
  /\ written' = [written EXCEPT ![t] = IF cb[t].fresh THEN @ \o cb[t].out ELSE @]
  /\ cb' = [cb EXCEPT ![t] = IdleCb]
  /\ UNCHANGED <<frames, written_from, envVars, nonAudioVars>>

\* History bookkeeping at a play or seek: the delivered stretch starts anew
\* at the file position the call left, and a block the audio thread has
\* already read belongs to the stretch before it.
Restart(t, p) ==
  /\ written' = [written EXCEPT ![t] = <<>>]
  /\ written_from' = [written_from EXCEPT ![t] = p.sf_pos]
  /\ cb' = [cb EXCEPT ![t].fresh = (cb[t].pc = "idle")]

\* ---------------------------------------------------------------------
\* SpecAudio: one track player on its own.  The rate, the volume and the
\* host's block size are drawn at the start; play and seek take any whole
\* frame up to one past the end of the file as target, and a seek comes
\* between two callbacks.
\* ---------------------------------------------------------------------
AudioTrack == 1
AudioRates == Rates
AudioVolumes == {50, 100}
AudioTargets == {k * TicksPerFrame : k \in 0..(FileLen + 1)}

InitAudio ==
  /\ sd_available = TRUE
  /\ sf_available = TRUE
  /\ unreadable = {}
  /\ read_only = FALSE
  /\ boxes = <<>>
  /\ \E r \in AudioRates, v \in AudioVolumes :
       players = [t \in Tracks |->
                    P_set_volume_db(P_set_playback_rate(NewPlayer(None), r), v)]
  /\ cb = [t \in Tracks |-> IdleCb]
  /\ \E n \in 1..MaxFrames : frames = [t \in Tracks |-> n]
  /\ outdata = [t \in Tracks |-> <<>>]
  /\ written = [t \in Tracks |-> <<>>]
  /\ written_from = [t \in Tracks |-> 0]
  /\ NonAudioDefault

AudioPlay ==
  /\ players[AudioTrack].stream = "none"
  /\ \E start_pos \in AudioTargets :
       LET p == P_play(AudioTrack, players[AudioTrack], start_pos, "ok", TRUE)
       IN /\ players' = [players EXCEPT ![AudioTrack] = p]
          /\ Restart(AudioTrack, p)
  /\ UNCHANGED <<frames, outdata, envVars, nonAudioVars>>

AudioSeek ==
  /\ players[AudioTrack].stream # "none"
  /\ cb[AudioTrack].pc = "idle"
  /\ \E seconds \in AudioTargets :
       LET p == P_seek(AudioTrack, players[AudioTrack], seconds)
       IN /\ players' = [players EXCEPT ![AudioTrack] = p]
          /\ Restart(AudioTrack, p)
  /\ UNCHANGED <<frames, outdata, envVars, nonAudioVars>>

AudioCallbackBegin == CallbackBegin(AudioTrack)

AudioCallbackEnd == CallbackEnd(AudioTrack)

NextAudio == AudioPlay \/ AudioSeek \/ AudioCallbackBegin \/ AudioCallbackEnd

SpecAudio == InitAudio /\ [][NextAudio]_vars

\* C5: at playback rate 1.0 and volume 100% the frames delivered to the
\* device since the last play/seek are exactly the file's frames from the
\* start position on, in order, none skipped, repeated or altered; only
\* past the end of the file are they silence.
C5_UnitRateCopiesSource ==
  \A t \in Tracks :
    (players[t].playback_rate = RateDen /\ players[t].volume = 100) =>
      \A k \in 1..Len(written[t]) :
        LET i == written_from[t] + k - 1
        IN IF i < FileFrames(t)
           THEN written[t][k][1] = Sample(t, i) * written[t][k][2]
           ELSE written[t][k][1] = 0

\* Output frame k of a block lies at source position (k-1)/rate; it is
\* beyond the available source when that is src_len or more.
BeyondSource(k, src_len, rate) == (k - 1) * RateDen >= src_len * rate

\* C6: for every rate and every number of source frames left in the file,
\* the block a callback produces and writes has exactly the requested
\* number of frames, and each of its frames beyond the end of the source
\* that was available is silence.
C6_BlockLengthAndPadding ==
  \A t \in Tracks :
    /\ Len(outdata[t]) \in {0, frames[t]}
    /\ cb[t].pc = "store" =>
         /\ Len(cb[t].out) = frames[t]
         /\ \A k \in 1..Len(cb[t].out) :
              BeyondSource(k, cb[t].src_len, cb[t].rate) => cb[t].out[k][1] = 0

\* A callback at a rate other than 1.0 that got fewer source frames than it
\* asked for and has an output frame beyond them.
C6_Witness ==
  \E t \in Tracks :
    /\ cb[t].pc = "store"
    /\ cb[t].rate # RateDen
    /\ cb[t].src_len < SrcFramesNeeded(frames[t], cb[t].rate)
    /\ \E k \in 1..frames[t] : BeyondSource(k, cb[t].src_len, cb[t].rate)

\* C13: at a rate r other than 1.0, a callback that starts away from the
\* end of the file advances the file's read position by the block size
\* scaled by 1/r (to within the rounding of one frame), so that the next
\* callback reads on where the interpolation of this one ended.
C13_ConsumesScaledFrames ==
  [][\A t \in Tracks :
       ( /\ cb[t].pc = "idle"
         /\ cb'[t].pc = "store"
         /\ cb'[t].rate # RateDen
         /\ cb'[t].src_len = SrcFramesNeeded(frames[t], cb'[t].rate) )
       => LET consumed == players'[t].sf_pos - players[t].sf_pos
          IN /\ consumed * cb'[t].rate > frames[t] * RateDen - cb'[t].rate
             /\ consumed * cb'[t].rate < frames[t] * RateDen + cb'[t].rate
    ]_vars

\* C20: between two callbacks of a playing track, the position (not past
\* the end of the file) is the time of the frame the file delivers next:
\* the file's read offset divided by the sample rate.
C20_PositionTracksFile ==
  \A t \in Tracks :
    ( /\ players[t].stream = "active"
      /\ cb[t].pc = "idle"
      /\ players[t].position <= get_duration(t) )
    => players[t].position = players[t].sf_pos * TicksPerFrame

\* ---------------------------------------------------------------------
\* Sink routing: play() starts a thread that moves the sound server's sink
\* inputs to the track's sink with pactl.
\* ---------------------------------------------------------------------
\* `pactl list sink-inputs`: one block per running stream.  Every stream of
\* the player belongs to the one player process; PortAudio names them all
\* alike, and never after the audio file.
StreamMediaName == "ALSA Playback"
FileName(t) == "track" \o ToString(t) \o ".wav"
SinkInputBlocks ==
  [t \in {u \in Tracks : sink_of[u] # None} |->
     [pid |-> OurPid, media_name |-> StreamMediaName]]

\* pactl_find_sink_inputs_for_process_and_media(pid, media_substr): the
\* indexes, in listing order, of the sink inputs whose
\* application.process.id is pid or whose media name contains media_substr.
pactl_find_sink_inputs_for_process_and_media(pid, media_substr) ==
  LET hit(si) == \/ SinkInputBlocks[si].pid = pid
                 \/ media_substr = SinkInputBlocks[si].media_name
      F[n \in 0..NumTracks] ==
        IF n = 0 THEN <<>>
        ELSE IF n \in DOMAIN SinkInputBlocks /\ hit(n)
             THEN Append(F[n - 1], n) ELSE F[n - 1]
  IN F[NumTracks]

\* The first sink whose name is, or contains, device_name; else device_name.
TargetSink(device_name) ==
  IF \E i \in 1..Len(pactl_sinks) : pactl_sinks[i] = device_name
  THEN pactl_sinks[CHOOSE i \in 1..Len(pactl_sinks) :
                     /\ pactl_sinks[i] = device_name
                     /\ \A j \in 1..(i - 1) : pactl_sinks[j] # device_name]
  ELSE device_name

\* pactl move-sink-input si sink: fails when either does not exist.
pactl_move_sink_input_to_sink(so, si, sink) ==
  IF so[si] # None /\ sink \in SeqToSet(pactl_sinks)
  THEN [so EXCEPT ![si] = sink] ELSE so

StartMover(t) == [pc |-> "sleep", sink_inputs |-> <<>>, target_sink |-> None]

\* After the first sleep: return for the default device, else look for the
\* sink inputs; with none found, sleep once more.
MoverWake(t) ==
  /\ mover[t].pc = "sleep"
  /\ LET dev == players[t].device_name
         found == pactl_find_sink_inputs_for_process_and_media(OurPid, FileName(t))
     IN mover' = [mover EXCEPT ![t] =
          IF dev = None \/ dev = "default" THEN [@ EXCEPT !.pc = "done"]
          ELSE IF found = <<>> THEN [@ EXCEPT !.pc = "retry"]
          ELSE [pc |-> "move", sink_inputs |-> found,
                target_sink |-> TargetSink(dev)]]
  /\ UNCHANGED <<sink_of, envVars, playerVars, cbVars, uiVars>>

\* The second look after the second sleep.
MoverRetry(t) ==
  /\ mover[t].pc = "retry"
  /\ mover' = [mover EXCEPT ![t] =
       [pc |-> "move",
        sink_inputs |-> pactl_find_sink_inputs_for_process_and_media(
                          OurPid, FileName(t)),
        target_sink |-> TargetSink(players[t].device_name)]]
  /\ UNCHANGED <<sink_of, envVars, playerVars, cbVars, uiVars>>

\* One turn of `for si in sink_inputs`, or the end of the thread.
MoverMove(t) ==
  /\ mover[t].pc = "move"
  /\ IF mover[t].sink_inputs = <<>>
     THEN /\ mover' = [mover EXCEPT ![t].pc = "done"]
          /\ UNCHANGED sink_of
     ELSE /\ sink_of' = pactl_move_sink_input_to_sink(
                           sink_of, Head(mover[t].sink_inputs),
                           mover[t].target_sink)
          /\ mover' = [mover EXCEPT ![t].sink_inputs = Tail(@)]
  /\ UNCHANGED <<envVars, playerVars, cbVars, uiVars>>

\* ---------------------------------------------------------------------
\* SpecRouting: every track has its output selected, is started once with
\* play() and may be stopped, and the mover threads run in any order.
\* ---------------------------------------------------------------------
InitRouting ==
  /\ sd_available = TRUE
  /\ sf_available = TRUE
  /\ unreadable = {}
  /\ read_only = FALSE
  /\ boxes = <<>>
  /\ \E dev \in [Tracks -> SeqToSet(build_output_device_list)] :
       players = [t \in Tracks |-> NewPlayer(dev[t])]
  /\ cb = [t \in Tracks |-> IdleCb]
  /\ frames = [t \in Tracks |-> MaxFrames]
  /\ outdata = [t \in Tracks |-> <<>>]
  /\ written = [t \in Tracks |-> <<>>]
  /\ written_from = [t \in Tracks |-> 0]
  /\ RouteDefault
  /\ UiDefault

RoutingPlay(t) ==
  /\ players[t].stream = "none"
  /\ mover[t].pc = "off"
  /\ players' = [players EXCEPT ![t] = P_play(t, @, 0, "ok", TRUE)]
  /\ sink_of' = [sink_of EXCEPT ![t] = DefaultSink]
  /\ mover' = [mover EXCEPT ![t] = StartMover(t)]
  /\ UNCHANGED <<envVars, cbVars, uiVars>>

\* stop(): the stream is closed and its sink input is gone.
RoutingStop(t) ==
  /\ players[t].stream = "active"
  /\ players' = [players EXCEPT ![t] = P_stop(@)]
  /\ sink_of' = [sink_of EXCEPT ![t] = None]
  /\ UNCHANGED <<mover, envVars, cbVars, uiVars>>

NextRouting ==
  \E t \in Tracks :
    \/ RoutingPlay(t)
    \/ RoutingStop(t)
    \/ MoverWake(t)
    \/ MoverRetry(t)
    \/ MoverMove(t)

SpecRouting == InitRouting /\ [][NextRouting]_vars

\* C1: with every track playing on a sink of its own and every mover
\* thread finished, each track's sink input is on the sink selected for
\* that track.
C1_EachTrackOnItsOwnSink ==
  ( /\ \A t \in Tracks : /\ mover[t].pc = "done"
                         /\ players[t].stream = "active"
                         /\ players[t].device_name \in SeqToSet(pactl_sinks)
    /\ \A t, u \in Tracks :
         t # u => players[t].device_name # players[u].device_name )
  => \A t \in Tracks : sink_of[t] = players[t].device_name

\* ---------------------------------------------------------------------
\* MainWindow: the transport handlers and the 80 ms UI timer.
\* ---------------------------------------------------------------------
PlayerSet == SeqToSet(track_players)
RowSet == SeqToSet(track_rows)
PlayerIndex(t) == CHOOSE i \in 1..Len(track_players) : track_players[i] = t
Range(lo, hi) == [i \in 1..(hi - lo + 1) |-> lo + i - 1]

\* What opening and starting a stream can come to: <<open, start>>.
StreamOutcomes ==
  {<<"ok", TRUE>>, <<"fallback", TRUE>>, <<"ok", FALSE>>, <<"fail", FALSE>>}
OpenOutcome(oc) == IF sd_available THEN oc ELSE "fail"

\* play() without the check of SD_AVAILABLE and SF_AVAILABLE.
TryPlay_NoLibraryCheck(t, p, start_pos, open, start) ==
  P_play(t, p, start_pos, open, start)

\* play() raises at once when a library is missing; the handlers catch it.
TryPlay(t, p, start_pos, open, start) ==
  IF sd_available /\ sf_available
  THEN P_play(t, p, start_pos, OpenOutcome(open), start)
  ELSE p

CurrentRate ==
  IF project_playback_rate = Unset THEN RateDen ELSE project_playback_rate

\* History bookkeeping for a handler that plays or seeks the tracks of S.
RestartAll(newp, S) ==
  /\ written' = [t \in Tracks |-> IF t \in S THEN <<>> ELSE written[t]]
  /\ written_from' =
       [t \in Tracks |-> IF t \in S THEN newp[t].sf_pos ELSE written_from[t]]
  /\ cb' = [t \in Tracks |->
              IF t \in S THEN [cb[t] EXCEPT !.fresh = (cb[t].pc = "idle")]
              ELSE cb[t]]

\* The sound server after a handler that stopped and maybe restarted the
\* streams of S: a started stream has a new sink input on the default sink.
ServerAfter(newp, S) ==
  sink_of' = [t \in Tracks |->
                IF t \in S
                THEN IF newp[t].stream = "active" THEN DefaultSink ELSE None
                ELSE sink_of[t]]

\* TrackRow.set_player on a new TrackPlayerSD(path, device_name=assigned),
\* after set_playback_rate: the volume of the row, then the row's output.
LoadPlayer(t, assigned, rate, row, open) ==
  P_set_device_by_name(
    t, P_set_volume_db(P_set_playback_rate(NewPlayer(assigned), rate), row.vol),
    row.sink, OpenOutcome(open), TRUE)

\* on_play that resumes each player where it is.
OnPlayPlayer_Resume(t, start_pos, open, start) ==
  TryPlay(t, players[t], players[t].position, open, start)

\* on_play for the player of file t: the settings of the row with the
\* player's index, then play(start_pos).
OnPlayPlayer(t, start_pos, open, start) ==
  LET r == rows[track_rows[PlayerIndex(t)]]
      p1 == P_set_device_by_name(t, players[t], r.sink, OpenOutcome(open), start)
      p2 == P_set_volume_db(P_set_playback_rate(p1, CurrentRate), r.vol)
  IN TryPlay(t, p2, start_pos, open, start)

OnPlay ==
  /\ track_players # <<>>
  /\ \A t \in PlayerSet : cb[t].pc = "idle"
  /\ \E oc \in [PlayerSet -> StreamOutcomes] :
       LET start_pos == IF loop_toggle THEN timeline.loop_start ELSE 0
           newp == [t \in Tracks |->
                      IF t \in PlayerSet
                      THEN OnPlayPlayer(t, start_pos, oc[t][1], oc[t][2])
                      ELSE players[t]]
       IN /\ players' = newp
          /\ timeline' = set_position(timeline, start_pos)
          /\ ServerAfter(newp, PlayerSet)
          /\ mover' = [t \in Tracks |->
                         IF t \in PlayerSet /\ newp[t].stream = "active"
                         THEN StartMover(t) ELSE mover[t]]
          /\ RestartAll(newp, PlayerSet)
  /\ UNCHANGED <<envVars, frames, outdata, rowVars, sessionVars, loop_toggle,
                 tick_enabled_cb, bpm_spin, project_playback_rate, tick_calls>>

OnPause ==
  /\ \A t \in PlayerSet : cb[t].pc = "idle"
  /\ LET newp == [t \in Tracks |->
                    IF t \in PlayerSet THEN P_stop(players[t]) ELSE players[t]]
     IN players' = newp /\ ServerAfter(newp, PlayerSet)
  /\ UNCHANGED <<envVars, cbVars, mover, uiVars>>

OnStop ==
  /\ \A t \in PlayerSet : cb[t].pc = "idle"
  /\ LET newp == [t \in Tracks |->
                    IF t \in PlayerSet
                    THEN [P_stop(players[t]) EXCEPT !.position = 0]
                    ELSE players[t]]
     IN players' = newp /\ ServerAfter(newp, PlayerSet)
  /\ timeline' = set_position(timeline, 0)
  /\ UNCHANGED <<envVars, cbVars, mover, rowVars, sessionVars, loop_toggle,
                 tick_enabled_cb, bpm_spin, project_playback_rate, tick_calls>>

\* The user clicks "Loop On"; on_loop_toggled seeks when it got checked.
OnLoopToggled ==
  /\ \A t \in PlayerSet : cb[t].pc = "idle"
  /\ loop_toggle' = ~loop_toggle
  /\ IF loop_toggle'
     THEN LET newp == [t \in Tracks |->
                         IF t \in PlayerSet
                         THEN P_seek(t, players[t], timeline.loop_start)
                         ELSE players[t]]
          IN /\ players' = newp
             /\ RestartAll(newp, PlayerSet)
             /\ timeline' = set_position(timeline, timeline.loop_start)
     ELSE UNCHANGED <<players, written, written_from, cb, timeline>>
  /\ UNCHANGED <<envVars, frames, outdata, routeVars, rowVars, sessionVars,
                 tick_enabled_cb, bpm_spin, project_playback_rate, tick_calls>>

\* ui_tick, the pulse animation left out; the timer fires between two
\* callbacks.
UiTick ==
  /\ track_players # <<>>
  /\ \A t \in PlayerSet : cb[t].pc = "idle"
  /\ LET pos == players[track_players[1]].position
         tl1 == set_position(timeline, pos)
         inside_loop == tl1.loop_start <= pos /\ pos <= tl1.loop_end
         wrap == loop_toggle /\ inside_loop /\ pos >= tl1.loop_end - LoopEndSlack
         newp == [t \in Tracks |->
                    IF wrap /\ t \in PlayerSet
                    THEN P_seek(t, players[t], tl1.loop_start)
                    ELSE players[t]]
         tl2 == IF wrap THEN set_position(tl1, tl1.loop_start) ELSE tl1
         dur == get_duration(track_players[1])
     IN /\ players' = newp
        /\ IF wrap THEN RestartAll(newp, PlayerSet)
           ELSE UNCHANGED <<written, written_from, cb>>
        /\ timeline' = IF dur > 0 THEN set_duration(tl2, dur) ELSE tl2
  /\ UNCHANGED <<envVars, frames, outdata, routeVars, rowVars, sessionVars, loop_toggle,
                 tick_enabled_cb, bpm_spin, project_playback_rate, tick_calls>>

\* The user clicks the timeline at time s, away from the loop handles:
\* mousePressEvent sets the timeline's position and emits seekRequested,
\* and on_seek_requested seeks every player.
OnSeekRequested(s) ==
  /\ \A t \in PlayerSet : cb[t].pc = "idle"
  /\ LET newt == Max(0, Min(timeline.duration, s))
         newp == [t \in Tracks |->
                    IF t \in PlayerSet THEN P_seek(t, players[t], newt)
                    ELSE players[t]]
     IN /\ timeline' = set_position(timeline, newt)
        /\ players' = newp
        /\ RestartAll(newp, PlayerSet)
  /\ UNCHANGED <<envVars, frames, outdata, routeVars, rowVars, sessionVars,
                 loop_toggle, tick_enabled_cb, bpm_spin, project_playback_rate,
                 tick_calls>>

\* The user clicks a row's Mute or Solo box, or the Tick box: no handler is
\* connected to any of them.
ToggleMute(f) ==
  /\ f \in RowSet
  /\ rows' = [rows EXCEPT ![f].mute = ~@]
  /\ UNCHANGED <<envVars, playerVars, cbVars, routeVars, track_rows,
                 track_players, transportVars, sessionVars>>

ToggleSolo(f) ==
  /\ f \in RowSet
  /\ rows' = [rows EXCEPT ![f].solo = ~@]
  /\ UNCHANGED <<envVars, playerVars, cbVars, routeVars, track_rows,
                 track_players, transportVars, sessionVars>>

ToggleTick ==
  /\ app = "running"
  /\ edits < MaxEdits
  /\ tick_enabled_cb' = ~tick_enabled_cb
  /\ edits' = edits + 1
  /\ UNCHANGED <<envVars, playerVars, cbVars, routeVars, rowVars, cfgVars,
                 loopVars, loop_toggle, bpm_spin, project_playback_rate,
                 timeline, tick_calls>>

\* ---------------------------------------------------------------------
\* MainWindow: window start, folder open, settings save, window close.
\* ---------------------------------------------------------------------
\* TrackRow without the `dev = e.get('sink')` part of _load_settings: the
\* combo box keeps its first item.
TrackRow_FirstItem(t, names, st) ==
  LET e == Get(st, FileName(t), EmptyDict)
  IN [NewRow EXCEPT !.vol = Clamp(Get(e, "volume", 100), 0, 120),
                    !.sink = names[1]]

\* TrackRow(filepath, device_names, settings): _build_ui, then
\* _load_settings.  The slider keeps a value inside its range; the combo
\* box shows its first item unless the saved sink is one of its items.
TrackRow(t, names, st) ==
  LET e == Get(st, FileName(t), EmptyDict)
      dev == Get(e, "sink", None)
  IN [NewRow EXCEPT
        !.vol = Clamp(Get(e, "volume", 100), 0, 120),
        !.sink = IF dev # None /\ dev \in SeqToSet(names) THEN dev ELSE names[1]]

\* load_tracks: the `assigned` sink of a file.
Assigned(t, st) ==
  LET ent == Get(st, FileName(t), EmptyDict)
  IN IF DOMAIN ent # {} THEN Get(ent, "sink", None) ELSE None

\* on_open: the read of <folder>/multitrack_config.json.
ProjectSettings(file) ==
  IF file.type \in {"missing", "garbage"} THEN PyDict(EmptyDict)
  ELSE json_load(file)

\* The keys that may come first in a dict.
FirstKeys(d) == IF DOMAIN d = {} THEN {None} ELSE DOMAIN d

\* load_tracks: the longest duration of the players, 10 s with no player or
\* with none longer than a second.
MaxDur(made) ==
  IF made = <<>> THEN 10 * TicksPerSecond
  ELSE LET durations == {get_duration(t) : t \in SeqToSet(made)}
           m == CHOOSE d \in durations : \A e \in durations : e <= d
       IN IF m <= TicksPerSecond THEN 10 * TicksPerSecond ELSE m

\* on_open with load_tracks for settings `st` (a dict) read from the file;
\* every file of the folder gets a row, and a player unless TrackPlayerSD()
\* raises for it (soundfile missing, or the file cannot be decoded):
\* what the handler leaves in the window.  `tl` is the timeline and `cur`
\* current_loop_name before the call, `open` the outcome of opening the
\* players' streams and `first` the first key of the loops dict.
on_open(tl, cur, st, open, first) ==
  LET g == Get(st, "_global", EmptyDict)
      rate == Get(g, "playback_rate", RateDen)
      names == build_output_device_list
      newrows == [t \in Tracks |-> TrackRow(t, names, st)]
      made == SelectSeq(Range(1, NumTracks),
                        LAMBDA t : sf_available /\ t \notin unreadable)
      maxdur == MaxDur(made)
      loops == Get(g, "loops", EmptyDict)
      last == Get(g, "last_used_loop", None)
      chosen == IF last # None /\ last \in DOMAIN loops THEN last
                ELSE IF DOMAIN loops # {} THEN first ELSE None
      tl1 == set_duration(tl, maxdur)
  IN [settings |->
        IF chosen = None THEN st
        ELSE DictSet(st, "_global", DictSet(g, "last_used_loop", chosen)),
      bpm_spin |-> Clamp(Get(g, "bpm", DEFAULT_BPM), 30, 300),
      project_playback_rate |-> rate,
      tick_enabled_cb |-> Get(g, "tick_enabled", TRUE),
      device_names |-> names,
      rows |-> newrows,
      track_players |-> made,
      players |-> [t \in Tracks |->
                     IF sf_available /\ t \notin unreadable
                     THEN LoadPlayer(t, Assigned(t, st), rate, newrows[t], open)
                     ELSE NewPlayer(Assigned(t, st))],
      timeline |-> IF chosen = None THEN set_loop(tl1, 0, maxdur)
                   ELSE set_loop(tl1, loops[chosen][1], loops[chosen][2]),
      loop_list |-> loops,
      loop_select |-> chosen,
      current_loop_name |-> IF chosen = None THEN cur ELSE chosen]

OpenOutcomes == {"ok", "fail"}

\* The user picks the project folder in on_open's dialog; `open` is what
\* opening the players' streams comes to.  Settings that are not a dict
\* make `self.settings.get` raise.
OnOpen(open) ==
  /\ app = "running"
  /\ \A t \in PlayerSet : cb[t].pc = "idle"
  /\ current_folder' = ProjectFolder
  /\ LET loaded == ProjectSettings(project_file)
     IN IF ~IsDict(loaded)
        THEN /\ settings' = loaded
             /\ app' = "failed"
             /\ UNCHANGED <<players, sink_of, rowVars, loopVars, device_names,
                            tick_enabled_cb, bpm_spin, project_playback_rate,
                            timeline>>
        ELSE \E first \in FirstKeys(Get(Get(loaded.val, "_global", EmptyDict),
                                        "loops", EmptyDict)) :
               LET o == on_open(timeline, current_loop_name, loaded.val,
                                open, first)
               IN /\ settings' = PyDict(o.settings)
                  /\ bpm_spin' = o.bpm_spin
                  /\ project_playback_rate' = o.project_playback_rate
                  /\ tick_enabled_cb' = o.tick_enabled_cb
                  /\ device_names' = o.device_names
                  /\ track_rows' = Range(1, NumTracks)
                  /\ rows' = o.rows
                  /\ track_players' = o.track_players
                  /\ players' = o.players
                  /\ sink_of' = [t \in Tracks |-> None]
                  /\ timeline' = o.timeline
                  /\ loop_list' = o.loop_list
                  /\ loop_select' = o.loop_select
                  /\ current_loop_name' = o.current_loop_name
                  /\ app' = app
  /\ UNCHANGED <<envVars, cbVars, mover, loop_toggle, tick_calls, global_file,
                 global_cfg, project_file, edits>>

\* on_save: one entry per row, and the project-wide values under _global.
SaveEntry(row) ==
  [sink |-> row.sink, volume |-> row.vol, mute |-> FALSE, solo |-> FALSE]

\* SaveGlobal with the rate label's start value in place of the rate.
SaveGlobal_UnitRate ==
  [loops |-> loop_list, last_used_loop |-> current_loop_name,
   bpm |-> bpm_spin, tick_enabled |-> tick_enabled_cb,
   playback_rate |-> RateDen]

SaveGlobal ==
  [loops |-> loop_list, last_used_loop |-> current_loop_name,
   bpm |-> bpm_spin, tick_enabled |-> tick_enabled_cb,
   playback_rate |-> CurrentRate]

SaveData ==
  [k \in {FileName(t) : t \in RowSet} \cup {"_global"} |->
     IF k = "_global" THEN SaveGlobal
     ELSE SaveEntry(rows[CHOOSE t \in RowSet : FileName(t) = k])]

OnOpenAny == \E open \in OpenOutcomes : OnOpen(open)

\* The message boxes of on_save.
NoFolderBox == "Info: No folder opened"
ErrorBox == "Error: Failed to save folder settings"
SavedBox == "Saved: Settings saved (project + global)."

\* on_save with a folder open whose settings file can be written.
OnSave ==
  /\ app = "running"
  /\ current_folder # None
  /\ ~read_only
  /\ project_file' = json_dump(PyDict(SaveData))
  /\ global_file' = save_global_config(global_cfg)
  /\ boxes' = <<SavedBox>>
  /\ UNCHANGED <<sd_available, sf_available, unreadable, read_only,
                 playerVars, cbVars, routeVars, rowVars,
                 transportVars, app, global_cfg, settings, current_folder,
                 device_names, loopVars, edits>>

\* on_save with a folder open in which open(..., 'w') raises: the except
\* branch shows the error, and the handler runs on to its last two lines.
OnSaveFailed ==
  /\ app = "running"
  /\ current_folder # None
  /\ read_only
  /\ global_file' = save_global_config(global_cfg)
  /\ boxes' = <<ErrorBox, SavedBox>>
  /\ UNCHANGED <<sd_available, sf_available, unreadable, read_only,
                 playerVars, cbVars, routeVars, rowVars,
                 transportVars, app, global_cfg, project_file, settings,
                 current_folder, device_names, loopVars, edits>>

\* on_save with no folder open: the early return.
OnSaveNoFolder ==
  /\ app = "running"
  /\ current_folder = None
  /\ boxes' = <<NoFolderBox>>
  /\ UNCHANGED <<sd_available, sf_available, unreadable, read_only,
                 playerVars, cbVars, routeVars, rowVars,
                 transportVars, cfgVars, loopVars, edits>>

\* MainWindow.__init__: global_cfg that is not a dict makes "ensure
\* defaults" raise, and the program ends before a window is shown.
Startup ==
  /\ app = "init"
  /\ LET cfg == load_global_config(global_file)
     IN IF IsDict(cfg)
        THEN /\ global_cfg' = PyDict(EnsureDefaults(cfg.val))
             /\ app' = "running"
        ELSE /\ global_cfg' = cfg
             /\ app' = "failed"
  /\ UNCHANGED <<envVars, playerVars, cbVars, routeVars, rowVars,
                 transportVars, global_file, project_file, settings,
                 current_folder, device_names, loopVars, edits>>

\* closeEvent: every player is stopped and the global config is saved.
CloseEvent ==
  /\ app = "running"
  /\ \A t \in PlayerSet : cb[t].pc = "idle"
  /\ LET newp == [t \in Tracks |->
                    IF t \in PlayerSet THEN P_stop(players[t]) ELSE players[t]]
     IN players' = newp /\ ServerAfter(newp, PlayerSet)
  /\ global_file' = save_global_config(global_cfg)
  /\ app' = "closed"
  /\ UNCHANGED <<envVars, cbVars, mover, rowVars, transportVars, global_cfg,
                 project_file, settings, current_folder, device_names,
                 loopVars, edits>>

\* ---------------------------------------------------------------------
\* The user's changes to the settings.
\* ---------------------------------------------------------------------
\* The user moves a row's volume slider: _on_volume_changed.
OnVolumeChanged(f, val) ==
  /\ app = "running"
  /\ f \in RowSet
  /\ rows[f].vol # val
  /\ edits < MaxEdits
  /\ rows' = [rows EXCEPT ![f].vol = val]
  /\ players' = IF f \in PlayerSet
                THEN [players EXCEPT ![f] = P_set_volume_db(@, val)]
                ELSE players
  /\ edits' = edits + 1
  /\ UNCHANGED <<envVars, cbVars, routeVars, track_rows, track_players,
                 transportVars, cfgVars, loopVars>>

\* The user picks another output in a row's combo box: _on_sink_changed;
\* `oc` is what opening and starting the player's new stream comes to.
OnSinkChanged(f, dev, oc) ==
  /\ app = "running"
  /\ f \in RowSet
  /\ dev \in SeqToSet(device_names)
  /\ rows[f].sink # dev
  /\ cb[f].pc = "idle"
  /\ edits < MaxEdits
  /\ rows' = [rows EXCEPT ![f].sink = dev]
  /\ IF f \in PlayerSet
     THEN LET newp == P_set_device_by_name(f, players[f], dev,
                                          OpenOutcome(oc[1]), oc[2])
          IN /\ players' = [players EXCEPT ![f] = newp]
             /\ sink_of' = [sink_of EXCEPT ![f] =
                              IF newp.stream = "active" THEN DefaultSink
                              ELSE None]
             /\ mover' = [mover EXCEPT ![f] =
                            IF newp.stream = "active" THEN StartMover(f)
                            ELSE @]
     ELSE UNCHANGED <<players, sink_of, mover>>
  /\ edits' = edits + 1
  /\ UNCHANGED <<envVars, cbVars, track_rows, track_players, transportVars,
                 cfgVars, loopVars>>

\* The user sets the BPM spin box.
OnBpmChanged(v) ==
  /\ app = "running"
  /\ bpm_spin # v
  /\ edits < MaxEdits
  /\ bpm_spin' = Clamp(v, 30, 300)
  /\ edits' = edits + 1
  /\ UNCHANGED <<envVars, playerVars, cbVars, routeVars, rowVars, loop_toggle,
                 tick_enabled_cb, project_playback_rate, timeline, tick_calls,
                 cfgVars, loopVars>>

set_rate(new) ==
  /\ project_playback_rate' = new
  /\ players' = [t \in Tracks |->
                   IF t \in PlayerSet THEN P_set_playback_rate(players[t], new)
                   ELSE players[t]]
  /\ UNCHANGED <<envVars, cbVars, routeVars, rowVars, loop_toggle,
                 tick_enabled_cb, bpm_spin, timeline, tick_calls, cfgVars,
                 loopVars>>

on_rate_plus ==
  /\ app = "running"
  /\ edits < MaxEdits
  /\ set_rate(Min(CurrentRate + PLAYBACK_RATE_STEP, PLAYBACK_RATE_MAX))
  /\ edits' = edits + 1

on_rate_minus ==
  /\ app = "running"
  /\ edits < MaxEdits
  /\ set_rate(Max(CurrentRate - PLAYBACK_RATE_STEP, PLAYBACK_RATE_MIN))
  /\ edits' = edits + 1

\* settings['_global']['last_used_loop'] = name
WithLastUsedLoop(st, name) ==
  IF IsDict(st)
  THEN PyDict(DictSet(st.val, "_global",
                      DictSet(Get(st.val, "_global", EmptyDict),
                              "last_used_loop", name)))
  ELSE st

\* on_save_loop with a name typed into the dialog; selecting the new item
\* of the drop-down runs on_loop_selected.
LoopNames == {"A", "B"}

on_save_loop(name) ==
  /\ app = "running"
  /\ edits < MaxEdits
  /\ LET rng == <<timeline.loop_start, timeline.loop_end>>
     IN /\ loop_list' = DictSet(loop_list, name, rng)
        /\ timeline' = set_loop(timeline, rng[1], rng[2])
  /\ current_loop_name' = name
  /\ loop_select' = name
  /\ settings' = WithLastUsedLoop(settings, name)
  /\ edits' = edits + 1
  /\ UNCHANGED <<envVars, playerVars, cbVars, routeVars, rowVars, loop_toggle,
                 tick_enabled_cb, bpm_spin, project_playback_rate, tick_calls,
                 app, global_file, global_cfg, project_file, current_folder,
                 device_names>>

\* on_delete_loop with a loop selected: update_loop_dropdown leaves
\* "Select loop..." selected.
on_delete_loop ==
  /\ app = "running"
  /\ loop_select # None
  /\ edits < MaxEdits
  /\ loop_list' = IF loop_select \in DOMAIN loop_list
                  THEN DictDel(loop_list, loop_select) ELSE loop_list
  /\ loop_select' = IF loop_select \in DOMAIN loop_list THEN None
                    ELSE loop_select
  /\ edits' = edits + 1
  /\ UNCHANGED <<envVars, playerVars, cbVars, routeVars, rowVars,
                 transportVars, cfgVars, current_loop_name>>

\* The user picks a loop in the drop-down: on_loop_selected.
on_loop_selected(name) ==
  /\ app = "running"
  /\ name \in DOMAIN loop_list
  /\ loop_select # name
  /\ loop_select' = name
  /\ current_loop_name' = name
  /\ timeline' = set_loop(timeline, loop_list[name][1], loop_list[name][2])
  /\ settings' = WithLastUsedLoop(settings, name)
  /\ UNCHANGED <<envVars, playerVars, cbVars, routeVars, rowVars, loop_toggle,
                 tick_enabled_cb, bpm_spin, project_playback_rate, tick_calls,
                 app, global_file, global_cfg, project_file, current_folder,
                 device_names, loop_list, edits>>

\* The user drags the loop-end handle of the timeline to time t:
\* mouseMoveEvent with dragging == 'end', then on_loop_changed.
DragLoopEnd(t) ==
  /\ app = "running"
  /\ edits < MaxEdits
  /\ LET te == Max(0, Min(timeline.duration, t))
         new_end == Max(te, timeline.loop_start + samplerate)
     IN timeline' = [timeline EXCEPT !.loop_end = Min(timeline.duration, new_end)]
  /\ current_loop_name' = None
  /\ edits' = edits + 1
  /\ UNCHANGED <<envVars, playerVars, cbVars, routeVars, rowVars, loop_toggle,
                 tick_enabled_cb, bpm_spin, project_playback_rate, tick_calls,
                 cfgVars, loop_list, loop_select>>

\* ---------------------------------------------------------------------
\* The window after MainWindow() with no global config file and on_open on
\* a folder of NumTracks files whose settings file is one of `files`.
\* ---------------------------------------------------------------------
OpenedFolder(files) ==
  /\ sd_available \in BOOLEAN
  /\ sf_available \in BOOLEAN
  /\ unreadable = {}
  /\ read_only = FALSE
  /\ boxes = <<>>
  /\ app = "running"
  /\ global_file = MissingFile
  /\ global_cfg = PyDict(EnsureDefaults(EmptyDict))
  /\ project_file \in files
  /\ current_folder = ProjectFolder
  /\ \E first \in FirstKeys(Get(Get(project_file.val, "_global", EmptyDict),
                                "loops", EmptyDict)) :
       LET o == on_open(NewTimeline(10 * TicksPerSecond), None,
                        ProjectSettings(project_file).val, "ok", first)
       IN /\ settings = PyDict(o.settings)
          /\ bpm_spin = o.bpm_spin
          /\ project_playback_rate = o.project_playback_rate
          /\ tick_enabled_cb = o.tick_enabled_cb
          /\ device_names = o.device_names
          /\ track_rows = Range(1, NumTracks)
          /\ rows = o.rows
          /\ track_players = o.track_players
          /\ players = o.players
          /\ timeline = o.timeline
          /\ loop_list = o.loop_list
          /\ loop_select = o.loop_select
          /\ current_loop_name = o.current_loop_name
  /\ cb = [t \in Tracks |-> IdleCb]
  /\ frames = [t \in Tracks |-> MaxFrames]
  /\ outdata = [t \in Tracks |-> <<>>]
  /\ written = [t \in Tracks |-> <<>>]
  /\ written_from = [t \in Tracks |-> 0]
  /\ RouteDefault
  /\ loop_toggle = FALSE
  /\ tick_calls = 0
  /\ edits = 0

\* ---------------------------------------------------------------------
\* SpecTransport: an opened folder; the user plays, pauses, stops, switches the loop and the
\* tick on and off, while the audio threads and the UI timer run.  The
\* loops end on a block boundary of a play from the loop start, or between
\* two of them.
\* ---------------------------------------------------------------------
TransportLoops == {<<0, 2 * MaxFrames * TicksPerFrame>>,
                   <<0, (2 * MaxFrames - 1) * TicksPerFrame>>}

\* A settings file that holds the loop `lp` under the name "A".
FileWithLoop(lp) ==
  JsonObject([k \in {"_global"} |-> [loops |-> [n \in {"A"} |-> lp]]])

InitTransport == OpenedFolder({FileWithLoop(lp) : lp \in TransportLoops})

NextTransport ==
  \/ OnPlay
  \/ OnPause
  \/ OnStop
  \/ OnLoopToggled
  \/ UiTick
  \/ ToggleTick
  \/ \E t \in Tracks :
       \/ t \in PlayerSet /\ CallbackBegin(t)
       \/ t \in PlayerSet /\ CallbackEnd(t)
       \/ t \in PlayerSet /\ MoverWake(t)

SpecTransport == InitTransport /\ [][NextTransport]_vars

\* C2: with Loop On and the reference track playing, a UI tick that finds
\* the reference position at or past loop_end seeks every track to
\* loop_start.
C2_LoopWrapsAtLoopEnd ==
  [][( /\ UiTick
       /\ loop_toggle
       /\ players[track_players[1]].playing
       /\ players[track_players[1]].position >= timeline.loop_end )
     => \A t \in PlayerSet : players'[t].position = timeline.loop_start]_vars

\* C3: pressing Play with the Tick box checked plays a count-in: at least
\* one metronome tick is played by the time the tracks are started.
C3_CountInBeforePlay ==
  [][( /\ OnPlay
       /\ tick_enabled_cb
       /\ \E t \in PlayerSet : players'[t].playing )
     => tick_calls' > tick_calls]_vars

\* C17: Pause keeps each track's position and Stop resets it to 0.0; a
\* Play that follows a Pause (every track stopped at a position later than
\* 0.0) resumes every track from the position it was paused at.
C17_PausePlayResumes ==
  [][ /\ OnPause => \A t \in PlayerSet : players'[t].position = players[t].position
      /\ OnStop => \A t \in PlayerSet : players'[t].position = 0
      /\ ( /\ \A t \in PlayerSet : /\ ~players[t].playing
                                    /\ players[t].stream = "none"
                                    /\ players[t].position > 0
           /\ OnPlay )
         => \A t \in PlayerSet : players'[t].position = players[t].position
    ]_vars

\* ---------------------------------------------------------------------
\* SpecMix: the opened folder with the loop left alone; the user plays and
\* stops and clicks the Mute and Solo boxes of the rows.
\* ---------------------------------------------------------------------
InitMix == OpenedFolder({MissingFile})

NextMix ==
  \/ OnPlay
  \/ OnStop
  \/ \E t \in Tracks :
       \/ ToggleMute(t)
       \/ ToggleSolo(t)
       \/ t \in PlayerSet /\ CallbackBegin(t)
       \/ t \in PlayerSet /\ CallbackEnd(t)
       \/ t \in PlayerSet /\ MoverWake(t)

SpecMix == InitMix /\ [][NextMix]_vars

\* A track is to be heard when its Mute box is clear and, if any Solo box
\* is checked, its own is.
Audible(f) ==
  /\ ~rows[f].mute
  /\ (\E g \in RowSet : rows[g].solo) => rows[f].solo

\* C4: a callback that starts while its track is muted, or while another
\* track is soloed and its own is not, produces a silent block.
C4_MuteSoloSilence ==
  [][\A t \in PlayerSet :
       (cb[t].pc = "idle" /\ cb'[t].pc = "store" /\ ~Audible(t))
         => Silent(cb'[t].out)]_vars

\* ---------------------------------------------------------------------
\* A session from the start of the program: the global config file and the
\* settings file of the project folder hold anything; the window starts,
\* the folder is opened (again and again), settings are changed and saved,
\* the window is closed.
\* ---------------------------------------------------------------------
InitSession(sd_libs, sf_libs, global_files, project_files) ==
  /\ sd_available \in sd_libs
  /\ sf_available \in sf_libs
  /\ unreadable = {}
  /\ read_only = FALSE
  /\ boxes = <<>>
  /\ app = "init"
  /\ global_file \in global_files
  /\ global_cfg = PyDict(EmptyDict)
  /\ project_file \in project_files
  /\ settings = PyDict(EmptyDict)
  /\ current_folder = None
  /\ device_names = build_output_device_list
  /\ loop_list = EmptyDict
  /\ loop_select = None
  /\ current_loop_name = None
  /\ edits = 0
  /\ WindowDefault
  /\ RouteDefault
  /\ players = [t \in Tracks |-> NewPlayer(None)]
  /\ cb = [t \in Tracks |-> IdleCb]
  /\ frames = [t \in Tracks |-> MaxFrames]
  /\ outdata = [t \in Tracks |-> <<>>]
  /\ written = [t \in Tracks |-> <<>>]
  /\ written_from = [t \in Tracks |-> 0]

\* A settings file written by hand: a volume outside the slider's range, a
\* sink that is not there, an entry without a volume.
HandFile ==
  JsonObject([k \in {FileName(1), FileName(NumTracks)} |->
                IF k = FileName(1) THEN [sink |-> "sinkB", volume |-> 150]
                ELSE [sink |-> "gone"]])

GlobalFiles ==
  {MissingFile, GarbageFile, JsonArray, JsonNull,
   JsonObject([k \in {"tick_file"} |-> "tick.wav"])}

ProjectFiles == {MissingFile, GarbageFile, JsonArray, HandFile}

\* ---------------------------------------------------------------------
\* SpecLoad: the session over every kind of content of the two files, with
\* no setting changed by hand.
\* ---------------------------------------------------------------------
InitLoad == InitSession(BOOLEAN, BOOLEAN, GlobalFiles, ProjectFiles)

NextLoad == Startup \/ OnOpenAny \/ OnSave \/ CloseEvent

SpecLoad == InitLoad /\ [][NextLoad]_vars

\* C10: once loaded, the global config and the project settings are dicts,
\* and neither the start of the window nor a folder open has failed.
C10_LoadedConfigIsDict ==
  app # "init" => /\ IsDict(global_cfg)
                  /\ IsDict(settings)
                  /\ app # "failed"

\* ---------------------------------------------------------------------
\* SpecSettings: the session with sounddevice present and no global config
\* file, the settings file missing or written by hand, the window left
\* open, and the rows' volume sliders and output boxes as the settings the
\* user changes; every stream opens.
\* ---------------------------------------------------------------------
EditVolumes == {0, 120}

InitSettings ==
  InitSession({TRUE}, BOOLEAN, {MissingFile}, {MissingFile, HandFile})

NextSettings ==
  \/ Startup
  \/ OnOpen("ok")
  \/ OnSave
  \/ \E f \in Tracks :
       \/ \E val \in EditVolumes : OnVolumeChanged(f, val)
       \/ \E dev \in SeqToSet(build_output_device_list) :
            OnSinkChanged(f, dev, <<"ok", TRUE>>)

SpecSettings == InitSettings /\ [][NextSettings]_vars

\* The entry of row f in a settings file, or the empty dict.
FileEntry(file, f) == Get(file.val, FileName(f), EmptyDict)

\* C7: Save Settings and re-opening the folder is a round trip for the
\* rows.  (1) Save writes each row's output and volume into the row's entry
\* of the settings file; (2) nothing but Save changes the file; (3) opening
\* the folder on a file that holds, for a row, a listed output and a volume
\* in 0..120 brings the row back with that output and that volume.
C7_SaveReopenRestoresRows ==
  [][ /\ OnSave =>
           /\ project_file'.type = "object"
           /\ \A f \in RowSet :
                /\ FileName(f) \in DOMAIN project_file'.val
                /\ FileEntry(project_file', f).sink = rows[f].sink
                /\ FileEntry(project_file', f).volume = rows[f].vol
      /\ ~OnSave => project_file' = project_file
      /\ (OnOpenAny /\ project_file.type = "object") =>
           \A f \in Tracks :
             LET e == FileEntry(project_file, f)
             IN ( /\ DOMAIN e = {"sink", "volume", "mute", "solo"}
                  /\ e.sink \in SeqToSet(build_output_device_list)
                  /\ e.volume \in 0..120 )
                => /\ f \in SeqToSet(track_rows')
                   /\ rows'[f].sink = e.sink
                   /\ rows'[f].vol = e.volume
    ]_vars

\* A folder re-opened on a file that Save wrote: a row is back with the
\* volume and the output, neither the default, that its entry holds.
C7_Witness ==
  /\ app = "running"
  /\ IsDict(settings)
  /\ project_file.type = "object"
  /\ \E f \in RowSet :
       LET e == Get(settings.val, FileName(f), EmptyDict)
       IN /\ DOMAIN e = {"sink", "volume", "mute", "solo"}
          /\ e = FileEntry(project_file, f)
          /\ e.volume # 100
          /\ e.sink # "default"
          /\ rows[f].vol = e.volume
          /\ rows[f].sink = e.sink

\* ---------------------------------------------------------------------
\* SpecClose: the session of SpecSettings with any outcome for a newly
\* picked output, until the user closes the window.
\* ---------------------------------------------------------------------
NextClose ==
  \/ Startup
  \/ OnOpenAny
  \/ OnSave
  \/ CloseEvent
  \/ \E f \in Tracks :
       \/ \E val \in EditVolumes : OnVolumeChanged(f, val)
       \/ \E dev \in SeqToSet(build_output_device_list), oc \in StreamOutcomes :
            OnSinkChanged(f, dev, oc)

SpecClose == InitSettings /\ [][NextClose]_vars

\* C9: closing the window with a folder open whose settings file, written
\* by an earlier Save, no longer holds the current settings, writes the
\* current settings to that file.
C9_CloseWritesProjectSettings ==
  [][( /\ CloseEvent
       /\ current_folder # None
       /\ project_file.type = "object"
       /\ DOMAIN project_file.val = DOMAIN SaveData
       /\ project_file.val # SaveData )
     => /\ project_file'.type = "object"
        /\ project_file'.val = SaveData]_vars

\* ---------------------------------------------------------------------
\* SpecProject: the session, both libraries present, every stream opening
\* and the window left open, with the project-wide values as the settings the user changes:
\* BPM, playback rate, the Tick box and the loops.
\* ---------------------------------------------------------------------
EditBpms == {120}
DragTargets == {5 * TicksPerFrame}

\* A settings file written by hand: a BPM outside the spin box's range, a
\* playback rate, and no other project-wide value.
HandGlobalFile ==
  JsonObject([k \in {"_global"} |->
                [bpm |-> 500, playback_rate |-> PLAYBACK_RATE_MAX]])

InitProject ==
  InitSession({TRUE}, {TRUE}, {MissingFile},
              {MissingFile, HandGlobalFile,
               FileWithLoop(<<TicksPerFrame, 3 * TicksPerFrame>>)})

NextProject ==
  \/ Startup
  \/ OnOpen("ok")
  \/ OnSave
  \/ \E v \in EditBpms : OnBpmChanged(v)
  \/ on_rate_plus
  \/ on_rate_minus
  \/ ToggleTick
  \/ \E name \in LoopNames : on_save_loop(name)
  \/ on_delete_loop
  \/ \E name \in LoopNames : on_loop_selected(name)
  \/ \E t \in DragTargets : DragLoopEnd(t)

SpecProject == InitProject /\ [][NextProject]_vars

\* The _global dict of a settings file, or the empty dict.
FileGlobal(file) == Get(file.val, "_global", EmptyDict)

\* C8: Save Settings and re-opening the folder is a round trip for the
\* project-wide values.  (1) Save writes the BPM, the playback rate, the
\* Tick box and the loops dict under _global; (2) nothing but Save changes
\* the file; (3) opening the folder on a file that holds the five values
\* Save writes, the BPM within 30..300, sets the BPM, the playback rate,
\* the Tick box and the loops dict to the values in the file.
C8_SaveReopenRestoresGlobal ==
  [][ /\ OnSave =>
           /\ project_file'.type = "object"
           /\ "_global" \in DOMAIN project_file'.val
           /\ FileGlobal(project_file').bpm = bpm_spin
           /\ FileGlobal(project_file').playback_rate = CurrentRate
           /\ FileGlobal(project_file').tick_enabled = tick_enabled_cb
           /\ FileGlobal(project_file').loops = loop_list
      /\ ~OnSave => project_file' = project_file
      /\ (OnOpenAny /\ project_file.type = "object") =>
           LET g == FileGlobal(project_file)
           IN ( /\ DOMAIN g = {"loops", "last_used_loop", "bpm",
                               "tick_enabled", "playback_rate"}
                /\ g.bpm \in 30..300 )
              => /\ bpm_spin' = g.bpm
                 /\ project_playback_rate' = g.playback_rate
                 /\ tick_enabled_cb' = g.tick_enabled
                 /\ loop_list' = g.loops
    ]_vars

\* A folder re-opened on a file that Save wrote, with a BPM and a playback
\* rate other than the defaults, the Tick box cleared and a loop saved: the
\* window holds the values of the file.
C8_Witness ==
  /\ app = "running"
  /\ IsDict(settings)
  /\ project_file.type = "object"
  /\ LET g == FileGlobal(project_file)
     IN /\ DOMAIN g = {"loops", "last_used_loop", "bpm", "tick_enabled",
                       "playback_rate"}
        /\ DOMAIN Get(settings.val, "_global", EmptyDict) = DOMAIN g
        /\ settings.val["_global"].loops = g.loops
        /\ settings.val["_global"].bpm = g.bpm
        /\ g.bpm # DEFAULT_BPM
        /\ g.playback_rate # RateDen
        /\ ~g.tick_enabled
        /\ DOMAIN g.loops # {}
        /\ bpm_spin = g.bpm
        /\ project_playback_rate = g.playback_rate
        /\ tick_enabled_cb = g.tick_enabled
        /\ loop_list = g.loops

\* ---------------------------------------------------------------------
\* SpecBackend: an opened folder in a program that lacks sounddevice,
\* soundfile or both; the user opens the folder again, plays, pauses,
\* stops, clicks the timeline and the Loop box, and the UI timer runs.
\* ---------------------------------------------------------------------
InitBackend ==
  /\ OpenedFolder({MissingFile, FileWithLoop(<<TicksPerFrame, 3 * TicksPerFrame>>)})
  /\ ~(sd_available /\ sf_available)

NextBackend ==
  \/ OnOpenAny
  \/ OnPlay
  \/ OnPause
  \/ OnStop
  \/ \E s \in DragTargets \cup {0} : OnSeekRequested(s)
  \/ OnLoopToggled
  \/ UiTick

SpecBackend == InitBackend /\ [][NextBackend]_vars

\* C11: with sounddevice or soundfile missing, opening a folder, Play,
\* Pause, Stop and a seek never let an exception out of the handler (the
\* program keeps running), and no track is ever playing or has a stream.
C11_NoBackendNoSound ==
  ~(sd_available /\ sf_available) =>
    /\ app = "running"
    /\ \A t \in Tracks : ~players[t].playing /\ players[t].stream = "none"

\* Without sounddevice, a loaded track that was stopped or paused (its
\* file is closed) and then sought to a later position.
C11_Witness ==
  /\ ~sd_available
  /\ \E t \in PlayerSet : players[t].position > 0 /\ ~players[t].sf_open

\* ---------------------------------------------------------------------
\* SpecSwitch: one track player at rate 0.5 or 1.0; it is played from the
\* start, stopped and switched to another output while its audio thread
\* runs.  A switch
\* may come while a callback is between its read and its store of
\* self.position: stream.stop() inside stop() waits for that callback.
\* ---------------------------------------------------------------------
InitSwitch ==
  /\ InitAudio
  /\ players[AudioTrack].volume = 100
  /\ players[AudioTrack].playback_rate \in {PLAYBACK_RATE_MIN, RateDen}

AudioStop ==
  /\ players[AudioTrack].stream # "none"
  /\ cb[AudioTrack].pc = "idle"
  /\ players' = [players EXCEPT ![AudioTrack] = P_stop(@)]
  /\ UNCHANGED <<envVars, cbVars, nonAudioVars>>

AudioSwitch(dev, oc) ==
  /\ edits < MaxEdits
  /\ LET p == P_set_device_by_name(AudioTrack, players[AudioTrack], dev,
                                   oc[1], oc[2])
     IN /\ players' = [players EXCEPT ![AudioTrack] = p]
        /\ outdata' = IF cb[AudioTrack].pc = "store"
                      THEN [outdata EXCEPT ![AudioTrack] = cb[AudioTrack].out]
                      ELSE outdata
        /\ written' = [written EXCEPT ![AudioTrack] = <<>>]
        /\ written_from' = [written_from EXCEPT ![AudioTrack] = p.sf_pos]
        /\ cb' = [cb EXCEPT ![AudioTrack] = IdleCb]
  /\ edits' = edits + 1
  /\ UNCHANGED <<envVars, frames, routeVars, rowVars, transportVars, cfgVars,
                 loopVars>>

NextSwitch ==
  \/ AudioPlay /\ players'[AudioTrack].position = 0
  \/ AudioStop
  \/ \E dev \in SeqToSet(build_output_device_list), oc \in StreamOutcomes :
       AudioSwitch(dev, oc)
  \/ AudioCallbackBegin
  \/ AudioCallbackEnd

SpecSwitch == InitSwitch /\ [][NextSwitch]_vars

AudioSeekAnyTime(seconds) ==
  /\ players[AudioTrack].stream # "none"
  /\ edits < MaxEdits
  /\ LET p == P_seek(AudioTrack, players[AudioTrack], seconds)
     IN /\ players' = [players EXCEPT ![AudioTrack] = p]
        /\ Restart(AudioTrack, p)
  /\ edits' = edits + 1
  /\ UNCHANGED <<envVars, frames, outdata, routeVars, rowVars, transportVars,
                 cfgVars, loopVars>>

NextRace ==
  \/ AudioPlay /\ players'[AudioTrack].position = 0
  \/ \E seconds \in DragTargets \cup {0} : AudioSeekAnyTime(seconds)
  \/ AudioCallbackBegin
  \/ AudioCallbackEnd

SpecRace == InitSwitch /\ [][NextRace]_vars

\* C14: a seek is not lost to a running callback.  With no callback in
\* flight, the position is the target s of the last play or seek plus one
\* callback advance for each of the k callbacks that began and ended since
\* then, or for k + 1 (a callback that was running during the seek and
\* ended after it).
C14_SeekNotLost ==
  LET t == AudioTrack
      s == written_from[t] * TicksPerFrame
      k == Len(written[t]) \div frames[t]
      adv == CallbackAdvance(frames[t], players[t].playback_rate)
  IN (players[t].stream # "none" /\ cb[t].pc = "idle") =>
       players[t].position \in {s + k * adv, s + (k + 1) * adv}

\* ---------------------------------------------------------------------
\* SpecStart: an opened folder, both libraries present, with a saved loop
\* that starts after the start of the tracks; the user presses Play and
\* clicks the Loop box while the audio thread of the first track delivers
\* its first block after a Play, so that the tracks' positions differ when
\* Play is pressed again.
\* ---------------------------------------------------------------------
InitStart ==
  /\ OpenedFolder({FileWithLoop(<<TicksPerFrame, 3 * TicksPerFrame>>)})
  /\ sd_available
  /\ sf_available

NextStart ==
  \/ OnPlay
  \/ OnLoopToggled
  \/ written[AudioTrack] = <<>> /\ CallbackBegin(AudioTrack)
  \/ CallbackEnd(AudioTrack)

SpecStart == InitStart /\ [][NextStart]_vars

DamageFile(t) ==
  /\ t \notin unreadable
  /\ unreadable' = unreadable \cup {t}
  /\ UNCHANGED <<sd_available, sf_available, read_only, boxes, playerVars,
                 cbVars, nonAudioVars>>

InitRows == InitSession({TRUE}, {TRUE}, {MissingFile}, {MissingFile})

NextRows ==
  \/ Startup
  \/ OnOpen("ok")
  \/ OnPlay
  \/ \E f \in Tracks :
       \/ DamageFile(f)
       \/ \E val \in EditVolumes : OnVolumeChanged(f, val)

SpecRows == InitRows /\ [][NextRows]_vars

\* C16: at every index that on_play uses, the row and the player are of
\* the same file, whatever the folder holds.
C16_RowsMatchPlayers ==
  \A i \in 1..Min(Len(track_rows), Len(track_players)) :
    track_rows[i] = track_players[i]

\* ---------------------------------------------------------------------
\* SpecStop: an opened folder, both libraries present; the user presses
\* Play and Stop at any moment of the audio threads, each of which runs up
\* to its first block after a Play, and the UI timer fires.
\* ---------------------------------------------------------------------
\* stream.stop() returning at once, a callback in flight left running.
StreamStop_NoWait(c) == c

\* stream.stop() inside stop(): it returns when the callback in flight, if
\* any, has ended; the audio thread is then out of _callback.
StreamStop(c) == IdleCb

\* on_stop at any moment: a callback that is between its load and its
\* store of self.position ends, block written, inside stream.stop(); then
\* the positions are set to 0.0.
OnStopAnyTime ==
  /\ track_players # <<>>
  /\ LET newp == [t \in Tracks |->
                    IF t \in PlayerSet
                    THEN [P_stop(players[t]) EXCEPT !.position = 0]
                    ELSE players[t]]
         ends(t) == t \in PlayerSet /\ cb[t].pc = "store"
     IN /\ players' = newp
        /\ ServerAfter(newp, PlayerSet)
        /\ outdata' = [t \in Tracks |->
                         IF ends(t) THEN cb[t].out ELSE outdata[t]]
        /\ written' = [t \in Tracks |->
                         IF ends(t) /\ cb[t].fresh THEN written[t] \o cb[t].out
                         ELSE written[t]]
        /\ cb' = [t \in Tracks |->
                    IF t \in PlayerSet THEN StreamStop(cb[t]) ELSE cb[t]]
  /\ timeline' = set_position(timeline, 0)
  /\ UNCHANGED <<envVars, frames, written_from, mover, rowVars, sessionVars,
                 loop_toggle, tick_enabled_cb, bpm_spin, project_playback_rate,
                 tick_calls>>

InitStop == OpenedFolder({MissingFile}) /\ sd_available /\ sf_available

NextStop ==
  \/ OnPlay
  \/ OnStopAnyTime
  \/ UiTick
  \/ \E t \in Tracks :
       \/ t \in PlayerSet /\ written[t] = <<>> /\ CallbackBegin(t)
       \/ t \in PlayerSet /\ CallbackEnd(t)

SpecStop == InitStop /\ [][NextStop]_vars

\* Every track is not playing, has no stream and is at 0.0, and so is the
\* timeline.
Stopped ==
  /\ timeline.position = 0
  /\ \A t \in PlayerSet : /\ ~players[t].playing
                          /\ players[t].stream = "none"
                          /\ players[t].position = 0

C19_PlayingHasStream ==
  /\ app = "running"
  /\ \A t \in Tracks : players[t].playing => players[t].stream = "active"

\* After one Play, a track whose stream opened (on the selected device or
\* on the default one) plays, and a track for which no device opened, or
\* whose stream did not start, is left not playing.
C19_Witness ==
  \E t, u \in PlayerSet :
    /\ players[t].playing
    /\ players[t].stream = "active"
    /\ ~players[u].playing
    /\ ~players[u].stop_flag
    /\ players[u].stream \in {"none", "inactive"}

\* ---------------------------------------------------------------------
\* SpecTimeline: an opened folder whose settings file holds no loop, or a
\* loop saved when the first track was longer: it starts after the end of
\* the first track.  The user opens the folder again, clicks the timeline,
\* drags the loop handles, and the UI timer fires.
\* ---------------------------------------------------------------------
\* The user drags the loop-start handle of the timeline to time t:
\* mouseMoveEvent with dragging == 'start', then on_loop_changed.
DragLoopStart(t) ==
  /\ app = "running"
  /\ edits < MaxEdits
  /\ LET te == Max(0, Min(timeline.duration, t))
         new_start == Min(te, timeline.loop_end - samplerate)
     IN timeline' = [timeline EXCEPT !.loop_start = Max(0, new_start)]
  /\ current_loop_name' = None
  /\ edits' = edits + 1
  /\ UNCHANGED <<envVars, playerVars, cbVars, routeVars, rowVars, loop_toggle,
                 tick_enabled_cb, bpm_spin, project_playback_rate, tick_calls,
                 cfgVars, loop_list, loop_select>>

InitTimeline ==
  /\ OpenedFolder({MissingFile,
                   FileWithLoop(<<get_duration(1) + TicksPerFrame,
                                  get_duration(NumTracks)>>)})
  /\ sd_available
  /\ sf_available

NextTimeline ==
  \/ OnOpenAny
  \/ UiTick
  \/ \E s \in DragTargets \cup {0} : OnSeekRequested(s)
  \/ \E t \in DragTargets : DragLoopEnd(t)
  \/ \E t \in DragTargets : DragLoopStart(t)

SpecTimeline == InitTimeline /\ [][NextTimeline]_vars

\* C21: the loop region of the timeline is well formed and inside the
\* track: 0 <= loop_start <= loop_end <= duration, and duration >= 1.0 s.
C21_LoopInsideTimeline ==
  /\ 0 <= timeline.loop_start
  /\ timeline.loop_start <= timeline.loop_end
  /\ timeline.loop_end <= timeline.duration
  /\ timeline.duration >= TicksPerSecond

\* ---------------------------------------------------------------------
\* SpecRate: the session of SpecProject on a folder whose settings file is
\* missing or holds, written by hand, a playback rate of 2.0.
\* ---------------------------------------------------------------------
RateFile ==
  JsonObject([k \in {"_global"} |-> [playback_rate |-> 2 * RateDen]])

InitRate == InitSession({TRUE}, {TRUE}, {MissingFile}, {MissingFile, RateFile})

SpecRate == InitRate /\ [][NextProject]_vars

\* C22: once a folder was opened the project playback rate lies in
\* [PLAYBACK_RATE_MIN, PLAYBACK_RATE_MAX], and the playback rate of every
\* loaded player equals it.
C22_RateInRange ==
  /\ project_playback_rate # Unset => project_playback_rate \in Rates
  /\ \A t \in PlayerSet : players[t].playback_rate = CurrentRate

\* C23: every Save Settings writes a project file whose last_used_loop is
\* null or the name of a loop in the loops dictionary of that same file.
C23_SavedLoopNameExists ==
  [][OnSave =>
       LET g == project_file'.val["_global"]
       IN g.last_used_loop = None \/ g.last_used_loop \in DOMAIN g.loops]_vars

\* C24: while a folder is open the timeline duration is the duration of the
\* longest loaded track (10 s when no track is longer than 1 s), through UI
\* ticks and playback.
C24_DurationIsLongestTrack ==
  current_folder # None => timeline.duration = MaxDur(track_players)

\* ---------------------------------------------------------------------
\* SpecFinish: one track player that is played and then left alone: no
\* stop, no seek, and play() only while the track is not playing.  The
\* host calls _callback again and again while the stream is active, so
\* both halves of the callback are weakly fair.
\* ---------------------------------------------------------------------
PlayWhenIdle ==
  /\ ~players[AudioTrack].playing
  /\ \E start_pos \in AudioTargets, open \in {"ok", "fail"}, start \in BOOLEAN :
       LET p == P_play(AudioTrack, players[AudioTrack], start_pos, open, start)
       IN /\ players' = [players EXCEPT ![AudioTrack] = p]
          /\ Restart(AudioTrack, p)
  /\ UNCHANGED <<frames, outdata, envVars, nonAudioVars>>

NextFinish == PlayWhenIdle \/ AudioCallbackBegin \/ AudioCallbackEnd

SpecFinish ==
  /\ InitSwitch
  /\ [][NextFinish]_vars
  /\ WF_vars(AudioCallbackBegin)
  /\ WF_vars(AudioCallbackEnd)

\* C25: with fair audio callbacks a playing track that is neither stopped
\* nor seeked eventually has playing = False; the flag falls in a callback
\* whose read found the file at its end, which writes a block of silence
\* and leaves the stream inactive; and the flag rises again only in play().
C25_PlayingTrackFinishes ==
  /\ players[AudioTrack].playing ~> ~players[AudioTrack].playing
  /\ [][(players[AudioTrack].playing /\ ~players'[AudioTrack].playing)
          => /\ players[AudioTrack].sf_pos = FileFrames(AudioTrack)
             /\ Silent(outdata'[AudioTrack])
             /\ Len(outdata'[AudioTrack]) = frames[AudioTrack]
             /\ players'[AudioTrack].stream = "inactive"]_vars
  /\ [][(~players[AudioTrack].playing /\ players'[AudioTrack].playing)
          => PlayWhenIdle]_vars

\* A track that was played, delivered sound and finished at the file's end.
C25_Witness ==
  /\ ~players[AudioTrack].playing
  /\ players[AudioTrack].stream = "inactive"
  /\ players[AudioTrack].sf_pos = FileFrames(AudioTrack)
  /\ written[AudioTrack] # <<>>
  /\ Silent(outdata[AudioTrack])

\* ---------------------------------------------------------------------
\* SpecOutputs: a session in which the user opens the folder, picks
\* outputs in the rows and presses Refresh Outputs, while the last sink of
\* the sound server may be unplugged or plugged in again.
\* ---------------------------------------------------------------------
\* What build_output_device_list() may return at a refresh.
OutputLists ==
  {<<"default">> \o SubSeq(pactl_sinks, 1, n) :
     n \in {Len(pactl_sinks) - 1, Len(pactl_sinks)}}

\* on_refresh_outputs: every combo box is refilled with its signals
\* blocked; it goes back to the item it showed when that is still listed
\* and is left on the first item otherwise.  No player is told.
OnRefreshOutputs(names) ==
  /\ app = "running"
  /\ device_names' = names
  /\ rows' = [t \in DOMAIN rows |->
               IF t \in RowSet /\ rows[t].sink \notin SeqToSet(names)
               THEN [rows[t] EXCEPT !.sink = names[1]]
               ELSE rows[t]]
  /\ UNCHANGED <<envVars, playerVars, cbVars, routeVars, track_rows,
                 track_players, transportVars, app, global_file, global_cfg,
                 project_file, settings, current_folder, loopVars, edits>>

InitOutputs ==
  InitSession({TRUE}, {TRUE}, {MissingFile}, {MissingFile, HandFile})

NextOutputs ==
  \/ Startup
  \/ OnOpenAny
  \/ \E names \in OutputLists : OnRefreshOutputs(names)
  \/ \E f \in Tracks, dev \in SeqToSet(build_output_device_list),
        oc \in StreamOutcomes : OnSinkChanged(f, dev, oc)

SpecOutputs == InitOutputs /\ [][NextOutputs]_vars

\* C26: the output a row's combo box shows is the device_name of the
\* row's player.
C26_RowShowsPlayerDevice ==
  \A t \in RowSet \cap PlayerSet : rows[t].sink = players[t].device_name

\* ---------------------------------------------------------------------
\* SpecSave: a session in which the user opens the folder, changes
\* settings and presses Save Settings, before a folder is open and after,
\* and in which the folder may lose its write permission.
\* ---------------------------------------------------------------------
\* The project folder is made read-only: open(path, 'w') raises in it from
\* now on.
ProtectFolder ==
  /\ ~read_only
  /\ read_only' = TRUE
  /\ UNCHANGED <<sd_available, sf_available, unreadable, boxes, playerVars,
                 cbVars, nonAudioVars>>

InitSave == InitSession({TRUE}, {TRUE}, {MissingFile}, {MissingFile, HandFile})

NextSave ==
  \/ Startup
  \/ OnOpen("ok")
  \/ ProtectFolder
  \/ OnSave
  \/ OnSaveFailed
  \/ OnSaveNoFolder
  \/ \E f \in Tracks, val \in EditVolumes : OnVolumeChanged(f, val)
  \/ \E v \in EditBpms : OnBpmChanged(v)

SpecSave == InitSave /\ [][NextSave]_vars

\* C27: a Save Settings whose write of the project file fails shows the
\* error and not the "Settings saved" confirmation, and a Save Settings
\* with no folder open writes no file.
C27_SavedOnlyWhenWritten ==
  [][/\ OnSaveFailed => /\ ErrorBox \in SeqToSet(boxes')
                        /\ SavedBox \notin SeqToSet(boxes')
     /\ OnSaveNoFolder => UNCHANGED <<project_file, global_file>>]_vars

====
